---- MODULE Spec2Model ----
(***************************************************************************)
(* A model of the RTP fan-out relay: the session registry                  *)
(* (src/src/session.rs), the fan-out engine (src/src/fanout.rs) and the    *)
(* ingress loop with its RTP codec (src/src/lib.rs).                       *)
(*                                                                         *)
(* Session objects live on a heap (Arc<Session>): the registry holds       *)
(* references to them, and so do callers that looked a session up, so an   *)
(* object stays usable after the registry dropped it.  Every access to a   *)
(* DashMap, to the RwLock around last_activity and to the clock is one     *)
(* step; the steps of concurrently running callers interleave freely.      *)
(* Fields that no code path ever reads (created_at, the Subscriber values  *)
(* joined_at / last_seq / packet_count) are left out: a subscriber set is  *)
(* the key set of Session::subscribers.  A Session is dropped when its     *)
(* last Arc goes: its heap cell is then Freed.                             *)
(***************************************************************************)
EXTENDS Integers, Sequences, FiniteSets, TLC

VARIABLES
    now,          \* the monotonic clock read by Instant::now()
    heap,         \* SessionId -> Session object, every Session ever constructed
    sessions,     \* SessionManager::sessions, the ids present in the id map
    ssrc_index,   \* SessionManager::ssrc_index, SSRC -> SessionId or None
    pc,           \* per control-plane caller: where it is in its current call
    frame,        \* per control-plane caller: arguments and locals of the call
    ret,          \* what the step just taken returned to its caller, if it was a return
    ipc,          \* the ingress task: where it is in run / process_batch / fanout_packet
    packet_queue, \* the SegQueue<RtpPacket> shared by the server and the engine
    buf,          \* run's receive buffer buf[..len], <<>> once it has been parsed
    cur,          \* the ingress task's locals
    socket,       \* FanoutEngine::socket, destination address -> its cached socket
    egress,       \* every send submitted so far, in order: [sock, addr, data, ok]
    received      \* number of datagrams recv_from has returned

registry == <<sessions, ssrc_index>>
callers == <<pc, frame>>
ingress == <<ipc, packet_queue, buf, cur, socket, egress, received>>
vars == <<now, heap, sessions, ssrc_index, pc, frame, ret,
          ipc, packet_queue, buf, cur, socket, egress, received>>

----------------------------------------------------------------------------
(* Bounds of the model and the configuration it runs under *)

MaxIds == 3
MaxTime == 2
MaxDatagrams == 2
\* the longest queue of packets that have a session
MaxBatch == 3
MaxTail == 4
MaxSends == 3
max_sessions == 2
max_fanout_per_session == 1
session_timeout_secs == 1

Threads == {1, 2}
SSRCs == {1, 2}
\* more SSRCs than the registry has room for
ManySSRCs == {1, 2, 3}
Addrs == {1, 2}
SourceAddrs == {1}

None == 0
Ids == 1..MaxIds

----------------------------------------------------------------------------
(* Session objects *)

Session_new(id, source_addr, ssrc) ==
    [id |-> id, source_addr |-> source_addr, ssrc |-> ssrc,
     subscribers |-> {}, last_activity |-> now,
     packet_count |-> 0, byte_count |-> 0]

\* the comparison of is_expired turned around
is_expired_inverted(s, timeout) == timeout > now - heap[s].last_activity

\* Session::is_expired: last.elapsed() > timeout
is_expired(s, timeout) == now - heap[s].last_activity > timeout

----------------------------------------------------------------------------
(* Registry reads *)

get_session(id) == IF id \in sessions THEN id ELSE None

\* a lookup that falls back to some session when the SSRC is not indexed
get_session_by_ssrc_or_any(ssrc) ==
    IF ssrc \in DOMAIN ssrc_index THEN get_session(ssrc_index[ssrc])
    ELSE IF sessions = {} THEN None ELSE CHOOSE id \in sessions : TRUE

\* SessionManager::get_session_by_ssrc
get_session_by_ssrc(ssrc) ==
    IF ssrc \in DOMAIN ssrc_index THEN get_session(ssrc_index[ssrc]) ELSE None

\* DashMap::insert and DashMap::remove on the SSRC index
IndexInsert(ssrc, id) ==
    [s \in DOMAIN ssrc_index \cup {ssrc} |-> IF s = ssrc THEN id ELSE ssrc_index[s]]

IndexRemove(ssrc) == [s \in DOMAIN ssrc_index \ {ssrc} |-> ssrc_index[s]]

session_count == Cardinality(sessions)

\* the SSRC index after the first create_session, for SSRC 1
IndexOf1 == [s \in {1} |-> 1]

\* the capacity check off by one
AtCapacityOffByOne == Cardinality(sessions) > max_sessions

\* the guard of create_session: self.sessions.len() >= self.config.max_sessions
AtCapacity == Cardinality(sessions) >= max_sessions

----------------------------------------------------------------------------
(* Callers *)

\* id, when not None, is an Arc<Session> the caller holds.  idle, rival, obs,
\* mark and missed are bookkeeping no code reads: the sessions that were idle
\* when the sweep began and that nothing has touched since; the session a
\* concurrently running create_session call published for the same SSRC; and,
\* for a caller looking on after its add_subscriber or remove_subscriber
\* returned, which of the two it was, how many sends had been submitted by
\* then, and the sequence number of the packet that was in its send loop with
\* a snapshot that lacks the address.
Frame0 ==
    [ssrc |-> 0, source_addr |-> 0, id |-> None, addr |-> 0, t |-> 0,
     pending |-> {}, visited |-> {}, expired |-> <<>>, sock |-> None,
     idle |-> {}, rival |-> None, obs |-> "none", mark |-> 0, missed |-> None]

NoRet == [t |-> 0, op |-> "none", arg |-> None, val |-> None]

Cur0 ==
    [i |-> 0, packet |-> None, session |-> None, t |-> 0, rtp_data |-> <<>>,
     pending |-> {}, subscribers |-> <<>>, k |-> 0, mark |-> 0]

Freed ==
    [id |-> 0, source_addr |-> 0, ssrc |-> 0, subscribers |-> {},
     last_activity |-> 0, packet_count |-> 0, byte_count |-> 0]

\* sessions owned by the registry alone: the fan-out's reference does not count
LiveInRegistry(ss, frames, c) == ss \cup {frames[u].id : u \in Threads}

\* The sessions some Arc still points to: the registry's and the holders'
Live(ss, frames, c) == ss \cup {frames[u].id : u \in Threads} \cup {c.session}

\* Drop for Arc<Session>
Collect(h, live) == [i \in DOMAIN h |-> IF i \in live THEN h[i] ELSE Freed]

\* Caller t moves to label with locals fr, the step returning r (NoRet unless
\* the call ends here) and leaving the heap as h.  touched are the sessions
\* whose last_activity this step writes.
Step(t, label, fr, r, h, touched) ==
    /\ pc' = [pc EXCEPT ![t] = label]
    /\ frame' = [u \in Threads |->
                    [(IF u = t THEN fr ELSE frame[u]) EXCEPT !.idle = @ \ touched]]
    /\ ret' = r
    /\ heap' = Collect(h, Live(sessions', frame', cur))

Return(t, op, arg, val) ==
    Step(t, "idle", Frame0, [t |-> t, op |-> op, arg |-> arg, val |-> val], heap, {})

Goto(t, label, fr) == Step(t, label, fr, NoRet, heap, {})

FreshId == Len(heap) + 1

Init ==
    /\ now = 0
    /\ heap = <<>>
    /\ sessions = {}
    /\ ssrc_index = <<>>
    /\ pc = [t \in Threads |-> "idle"]
    /\ frame = [t \in Threads |-> Frame0]
    /\ ret = NoRet
    /\ ipc = "recv"
    /\ packet_queue = <<>>
    /\ buf = <<>>
    /\ cur = Cur0
    /\ socket = <<>>
    /\ egress = <<>>
    /\ received = 0

Tick ==
    /\ now < MaxTime
    /\ now' = now + 1
    /\ ret' = NoRet
    /\ UNCHANGED <<heap, registry, callers, ingress>>

----------------------------------------------------------------------------
(* SessionManager::create_session *)

\* the callers that have constructed their Session and not yet returned
InCreate == {u \in Threads : pc[u] \in {"cs_sessions_insert", "cs_index_insert"}}

create_session_check(t, source_addr, ssrc) ==
    /\ pc[t] = "idle"
    /\ UNCHANGED <<now, registry, ingress>>
    /\ IF AtCapacity
       THEN Return(t, "create_session", ssrc, None)
       ELSE Goto(t, "cs_new",
                 [Frame0 EXCEPT !.ssrc = ssrc, !.source_addr = source_addr])

create_session_new(t) ==
    /\ pc[t] = "cs_new"
    /\ FreshId <= MaxIds
    /\ UNCHANGED <<now, registry, ingress>>
    /\ Step(t, "cs_sessions_insert", [frame[t] EXCEPT !.id = FreshId], NoRet,
            Append(heap, Session_new(FreshId, frame[t].source_addr, frame[t].ssrc)),
            {})

create_session_sessions_insert(t) ==
    /\ pc[t] = "cs_sessions_insert"
    /\ sessions' = sessions \cup {frame[t].id}
    /\ UNCHANGED <<now, ssrc_index, ingress>>
    /\ Goto(t, "cs_index_insert", frame[t])

\* the insert into the SSRC index, and the return of Some(session).  A caller
\* still inside create_session for the same SSRC learns its rival.
create_session_index_insert(t) ==
    /\ pc[t] = "cs_index_insert"
    /\ ssrc_index' = IndexInsert(frame[t].ssrc, frame[t].id)
    /\ UNCHANGED <<now, sessions, ingress>>
    /\ pc' = [pc EXCEPT ![t] = "idle"]
    /\ frame' = [u \in Threads |->
                    IF u = t THEN Frame0
                    ELSE IF u \in InCreate /\ frame[u].ssrc = frame[t].ssrc
                         THEN [frame[u] EXCEPT !.rival = frame[t].id]
                         ELSE frame[u]]
    /\ ret' = [t |-> t, op |-> "create_session", arg |-> frame[t].ssrc,
               val |-> frame[t].id]
    /\ heap' = Collect(heap, Live(sessions', frame', cur))

\* caller t in create_session, called for an SSRC of ssrcs
create_session(t, ssrcs) ==
    \/ \E a \in SourceAddrs, s \in ssrcs : create_session_check(t, a, s)
    \/ create_session_new(t)
    \/ create_session_sessions_insert(t)
    \/ create_session_index_insert(t)

----------------------------------------------------------------------------
(* SessionManager::remove_session *)

remove_session_sessions_remove(t, id) ==
    /\ pc[t] = "idle"
    /\ UNCHANGED <<now, ssrc_index, ingress>>
    /\ IF id \in sessions
       THEN /\ sessions' = sessions \ {id}
            /\ Goto(t, "rs_index_remove",
                    [Frame0 EXCEPT !.id = id, !.ssrc = heap[id].ssrc])
       ELSE /\ UNCHANGED sessions
            /\ Return(t, "remove_session", id, FALSE)

remove_session_index_remove(t) ==
    /\ pc[t] = "rs_index_remove"
    /\ ssrc_index' = IndexRemove(frame[t].ssrc)
    /\ UNCHANGED <<now, sessions, ingress>>
    /\ Return(t, "remove_session", frame[t].id, TRUE)

remove_session(t) ==
    \/ \E id \in Ids : remove_session_sessions_remove(t, id)
    \/ remove_session_index_remove(t)

----------------------------------------------------------------------------
(* SessionManager::cleanup_expired_sessions.  The iteration over the id    *)
(* map is not a snapshot: DashMap locks one shard at a time, so an entry   *)
(* present from the start to the end of the iteration is visited exactly   *)
(* once, and one inserted or removed meanwhile may or may not be seen.     *)

Timeout == session_timeout_secs

\* a session nothing has touched for more than session_timeout_secs
Idle(id) == now - heap[id].last_activity > session_timeout_secs

\* after the collect, and after each removal: the rest of the for loop
cleanup_loop(t, fr) ==
    IF fr.expired = <<>>
    THEN Return(t, "cleanup_expired_sessions", fr.idle, None)
    ELSE Goto(t, "ce_remove", fr)

cleanup_begin(t) ==
    /\ pc[t] = "idle"
    /\ UNCHANGED <<now, registry, ingress>>
    /\ Goto(t, "ce_scan",
            [Frame0 EXCEPT !.pending = sessions,
                           !.idle = {id \in sessions : Idle(id)}])

cleanup_visit(t, id) ==
    /\ pc[t] = "ce_scan"
    /\ id \in sessions \ frame[t].visited
    /\ UNCHANGED <<now, registry, ingress>>
    /\ Goto(t, "ce_scan",
            [frame[t] EXCEPT !.visited = @ \cup {id},
                             !.expired = IF is_expired(id, Timeout)
                                         THEN Append(@, id) ELSE @])

cleanup_collect(t) ==
    /\ pc[t] = "ce_scan"
    /\ (frame[t].pending \cap sessions) \subseteq frame[t].visited
    /\ UNCHANGED <<now, registry, ingress>>
    /\ cleanup_loop(t, [frame[t] EXCEPT !.pending = {}, !.visited = {}])

\* remove_session(&id), first half: sessions.remove(id)
cleanup_remove(t) ==
    /\ pc[t] = "ce_remove"
    /\ UNCHANGED <<now, ssrc_index, ingress>>
    /\ LET id == Head(frame[t].expired) IN
       IF id \in sessions
       THEN /\ sessions' = sessions \ {id}
            /\ Goto(t, "ce_index_remove",
                    [frame[t] EXCEPT !.id = id, !.ssrc = heap[id].ssrc])
       ELSE /\ UNCHANGED sessions
            /\ cleanup_loop(t, [frame[t] EXCEPT !.expired = Tail(@)])

\* remove_session(&id), second half: ssrc_index.remove(&session.ssrc)
cleanup_index_remove(t) ==
    /\ pc[t] = "ce_index_remove"
    /\ ssrc_index' = IndexRemove(frame[t].ssrc)
    /\ UNCHANGED <<now, sessions, ingress>>
    /\ cleanup_loop(t, [frame[t] EXCEPT !.expired = Tail(@), !.id = None, !.ssrc = 0])

cleanup_expired_sessions(t) ==
    \/ cleanup_begin(t)
    \/ \E id \in Ids : cleanup_visit(t, id)
    \/ cleanup_collect(t)
    \/ cleanup_remove(t)
    \/ cleanup_index_remove(t)

----------------------------------------------------------------------------
(* Session::add_subscriber and Session::remove_subscriber, called on the   *)
(* Arc<Session> the caller got from get_session_by_ssrc.                   *)

SubscribersInsert(s, addr) ==
    [heap EXCEPT ![s].subscribers = @ \cup {addr}]

\* a removal that reports success and leaves the map as it was
SubscribersKeep(s, addr) == heap

SubscribersRemove(s, addr) ==
    [heap EXCEPT ![s].subscribers = @ \ {addr}]

WriteLastActivity(s, t) == [heap EXCEPT ![s].last_activity = t]

add_subscriber_lookup(t, ssrc, addr) ==
    /\ pc[t] = "idle"
    /\ UNCHANGED <<now, registry, ingress>>
    /\ LET s == get_session_by_ssrc(ssrc) IN
       IF s = None
       THEN Return(t, "get_session_by_ssrc", ssrc, None)
       ELSE Goto(t, "as_insert", [Frame0 EXCEPT !.id = s, !.addr = addr])

add_subscriber_insert(t) ==
    /\ pc[t] = "as_insert"
    /\ UNCHANGED <<now, registry, ingress>>
    /\ Step(t, "as_now", frame[t], NoRet,
            SubscribersInsert(frame[t].id, frame[t].addr), {})

add_subscriber_now(t) ==
    /\ pc[t] = "as_now"
    /\ UNCHANGED <<now, registry, ingress>>
    /\ Goto(t, "as_write", [frame[t] EXCEPT !.t = now])

add_subscriber_write(t) ==
    /\ pc[t] = "as_write"
    /\ UNCHANGED <<now, registry, ingress>>
    /\ Step(t, "idle", Frame0,
            [t |-> t, op |-> "add_subscriber", arg |-> frame[t].addr, val |-> TRUE,
             on |-> frame[t].id],
            WriteLastActivity(frame[t].id, frame[t].t), {frame[t].id})

\* caller t adding a subscriber to the session of an SSRC of ssrcs
add_subscriber(t, ssrcs) ==
    \/ \E s \in ssrcs, a \in Addrs : add_subscriber_lookup(t, s, a)
    \/ add_subscriber_insert(t)
    \/ add_subscriber_now(t)
    \/ add_subscriber_write(t)

remove_subscriber_lookup(t, ssrc, addr) ==
    /\ pc[t] = "idle"
    /\ UNCHANGED <<now, registry, ingress>>
    /\ LET s == get_session_by_ssrc(ssrc) IN
       IF s = None
       THEN Return(t, "get_session_by_ssrc", ssrc, None)
       ELSE Goto(t, "us_remove", [Frame0 EXCEPT !.id = s, !.addr = addr])

remove_subscriber_remove(t) ==
    /\ pc[t] = "us_remove"
    /\ UNCHANGED <<now, registry, ingress>>
    /\ IF frame[t].addr \in heap[frame[t].id].subscribers
       THEN Step(t, "us_now", frame[t], NoRet,
                 SubscribersRemove(frame[t].id, frame[t].addr), {})
       ELSE Return(t, "remove_subscriber", frame[t].addr, FALSE)

remove_subscriber_now(t) ==
    /\ pc[t] = "us_now"
    /\ UNCHANGED <<now, registry, ingress>>
    /\ Goto(t, "us_write", [frame[t] EXCEPT !.t = now])

remove_subscriber_write(t) ==
    /\ pc[t] = "us_write"
    /\ UNCHANGED <<now, registry, ingress>>
    /\ Step(t, "idle", Frame0,
            [t |-> t, op |-> "remove_subscriber", arg |-> frame[t].addr, val |-> TRUE,
             on |-> frame[t].id],
            WriteLastActivity(frame[t].id, frame[t].t), {frame[t].id})

\* caller t removing a subscriber from the session of an SSRC of ssrcs
remove_subscriber(t, ssrcs) ==
    \/ \E s \in ssrcs, a \in Addrs : remove_subscriber_lookup(t, s, a)
    \/ remove_subscriber_remove(t)
    \/ remove_subscriber_now(t)
    \/ remove_subscriber_write(t)

----------------------------------------------------------------------------
(* The RTP codec *)

Byte(data, i) == data[i + 1]

BE16(x) == <<x \div 256, x % 256>>

BE32(x) == <<x \div 16777216, (x \div 65536) % 256, (x \div 256) % 256, x % 256>>

U16(a, b) == a * 256 + b

U32(a, b, c, d) == ((a * 256 + b) * 256 + c) * 256 + d

SubBytes(data, from, to) == [i \in 1..(to - from) |-> data[from + i]]

ParseNone == [tag |-> "None"]
ParsePanic == [tag |-> "Panic"]

\* RtpFanoutServer::parse_rtp_packet.  When payload_start exceeds the length,
\* data.len() - payload_start overflows (a panic in a debug build, a wrap in a
\* release build, where the comparison then succeeds) and the slice
\* data[payload_start..payload_end] panics in either build.
parse_rtp_packet(data) ==
    IF Len(data) < 12 THEN ParseNone
    ELSE LET version == (Byte(data, 0) \div 64) % 4 IN
    IF version # 2 THEN ParseNone
    ELSE LET padding == (Byte(data, 0) \div 32) % 2
             extension == (Byte(data, 0) \div 16) % 2
             csrc_count == Byte(data, 0) % 16
             marker == ((Byte(data, 1) \div 128) % 2) # 0
             sequence == U16(Byte(data, 2), Byte(data, 3))
             timestamp == U32(Byte(data, 4), Byte(data, 5), Byte(data, 6), Byte(data, 7))
             ssrc == U32(Byte(data, 8), Byte(data, 9), Byte(data, 10), Byte(data, 11))
             header_len == 12 + csrc_count * 4
         IN
    IF extension # 0 /\ Len(data) < header_len + 4 THEN ParseNone
    ELSE LET ext_len == U16(Byte(data, header_len + 2), Byte(data, header_len + 3))
             payload_start == IF extension # 0
                              THEN header_len + 4 + ext_len * 4 ELSE header_len
             padding_len == Byte(data, Len(data) - 1)
             wrapped == payload_start > Len(data)
             payload_end ==
                 IF /\ padding # 0
                    /\ padding_len > 0
                    /\ (wrapped \/ padding_len <= Len(data) - payload_start)
                 THEN Len(data) - padding_len ELSE Len(data)
         IN
    IF payload_start > payload_end THEN ParsePanic
    ELSE [tag |-> "Some",
          packet |-> [payload |-> SubBytes(data, payload_start, payload_end),
                      timestamp |-> timestamp, sequence |-> sequence,
                      ssrc |-> ssrc, marker |-> marker]]

\* the serializer writing the sequence number low byte first
serialize_rtp_packet_le(packet) ==
    <<128, IF packet.marker THEN 128 ELSE 0>>
        \o <<packet.sequence % 256, packet.sequence \div 256>>
        \o BE32(packet.timestamp) \o BE32(packet.ssrc)
        \o packet.payload

\* FanoutEngine::serialize_rtp_packet
serialize_rtp_packet(packet) ==
    <<128, IF packet.marker THEN 128 ELSE 0>>
        \o BE16(packet.sequence) \o BE32(packet.timestamp) \o BE32(packet.ssrc)
        \o packet.payload

----------------------------------------------------------------------------
(* The ingress task: RtpFanoutServer::run, handle_packet and, in line,     *)
(* FanoutEngine::process_batch / fanout_packet / send_to_subscriber.       *)

BATCH_SIZE == 256

\* an SSRC no caller ever creates a session for
UnknownSsrc == Cardinality(SSRCs) + 1

\* A sender's datagram: the fixed 12-byte header and what follows it
RtpDatagram(b0, b1, sequence, timestamp, ssrc, rest) ==
    <<b0, b1>> \o BE16(sequence) \o BE32(timestamp) \o BE32(ssrc) \o rest

\* What recv_from may return as its n-th datagram: a well-formed packet of a
\* sender that numbers its packets 100, 101, ... in the order it sends them, a
\* datagram shorter than the fixed header, and one whose CSRC count declares a
\* header longer than the datagram.
Datagrams(n) ==
    {RtpDatagram(128, 96, 100 + n, 0, s, <<7>>) : s \in SSRCs \cup {UnknownSsrc}}
        \cup {<<128>>, RtpDatagram(129, 96, 100 + n, 0, 1, <<7>>)}

QueuePush(q, packet) == Append(q, packet)

\* a queue handing out its newest element
QueuePopNewest(q) == [packet |-> q[Len(q)], rest |-> SubSeq(q, 1, Len(q) - 1)]

QueuePop(q) == [packet |-> Head(q), rest |-> Tail(q)]

\* the send loop stopping one subscriber short
LoopDoneEarly(k, n) == k + 1 >= n

\* for subscriber_addr in subscribers: over after the n-th of n addresses
LoopDone(k, n) == k >= n

InsertAt(log, p, e) == SubSeq(log, 1, p) \o <<e>> \o SubSeq(log, p + 1, Len(log))

\* the send detached from the loop (spawned, not awaited): it may reach the
\* wire after, or before, sends submitted earlier
SendDetached(log, sock, addr, data) ==
    {InsertAt(log, p, [sock |-> sock, addr |-> addr, data |-> data, ok |-> ok]) :
        p \in 0..Len(log), ok \in BOOLEAN}

\* socket.send_to(data, addr).await: the send is submitted before the loop
\* goes on, and succeeds or fails
SendOutcomes(log, sock, addr, data) ==
    {Append(log, [sock |-> sock, addr |-> addr, data |-> data, ok |-> ok]) :
        ok \in BOOLEAN}

\* an entry API that runs the closure whether or not the address is cached
BindOutcomesAlways(addr) == {"bound", "fallback", "panic"}

\* the entry(addr).or_insert_with closure: a cached socket, a freshly bound
\* one, the fallback bind, or the fallback's unwrap() failing
BindOutcomes(addr) ==
    IF addr \in DOMAIN socket THEN {"cached"} ELSE {"bound", "fallback", "panic"}

\* DashMap::insert of a socket created just now
SocketInsert(addr) ==
    [a \in DOMAIN socket \cup {addr} |->
        IF a = addr THEN Cardinality(DOMAIN socket) + 1 ELSE socket[a]]

\* the cache after entry(addr).or_insert_with(..) with the closure ending as bind
SocketEntry(addr, bind) == IF bind = "cached" THEN socket ELSE SocketInsert(addr)

\* self.socket.recv_from(&mut buf).await returning Ok((len, addr))
\* FanoutEngine::send_to_subscriber run by task t beside other tasks that
\* drive the same engine.  entry(addr) takes the write lock of the entry's
\* shard, and the RefMut it returns holds that lock until after the send: a
\* task asking for an address whose entry another task holds waits.
SomeData == serialize_rtp_packet(
    [payload |-> <<7>>, timestamp |-> 0, sequence |-> 100, ssrc |-> 1,
     marker |-> FALSE])

send_to_subscriber_entry(t, addr) ==
    /\ pc[t] = "idle"
    /\ Len(egress) < MaxSends
    /\ \A u \in Threads \ {t} : ~(pc[u] = "ss_send_to" /\ frame[u].addr = addr)
    /\ \E bind \in BindOutcomes(addr) :
          IF bind = "panic"
          THEN /\ UNCHANGED socket
               /\ Goto(t, "panicked", Frame0)
          ELSE /\ socket' = SocketEntry(addr, bind)
               /\ Goto(t, "ss_send_to",
                       [Frame0 EXCEPT !.addr = addr, !.sock = socket'[addr]])
    /\ UNCHANGED <<now, registry, ipc, packet_queue, buf, cur, egress, received>>

send_to_subscriber_send_to(t) ==
    /\ pc[t] = "ss_send_to"
    /\ egress' \in SendOutcomes(egress, frame[t].sock, frame[t].addr, SomeData)
    /\ Return(t, "send_to_subscriber", frame[t].addr, None)
    /\ UNCHANGED <<now, registry, ipc, packet_queue, buf, cur, socket, received>>

send_to_subscriber(t) ==
    \/ \E a \in Addrs : send_to_subscriber_entry(t, a)
    \/ send_to_subscriber_send_to(t)

run_recv(d) ==
    /\ ipc = "recv"
    /\ received < MaxDatagrams
    /\ received' = received + 1
    /\ buf' = d
    /\ ipc' = "parse"
    /\ ret' = NoRet
    /\ UNCHANGED <<now, heap, registry, callers, packet_queue, cur, socket, egress>>

\* parse_rtp_packet(&buf[..len]) and, on Some(packet), handle_packet's push
run_parse ==
    /\ ipc = "parse"
    /\ LET r == parse_rtp_packet(buf) IN
       CASE r.tag = "Panic" ->
                /\ ipc' = "panicked"
                /\ UNCHANGED <<packet_queue, cur>>
         [] r.tag = "None" ->
                /\ ipc' = "recv"
                /\ UNCHANGED <<packet_queue, cur>>
         [] r.tag = "Some" ->
                /\ packet_queue' = QueuePush(packet_queue, r.packet)
                /\ ipc' = "pb_pop"
                /\ cur' = Cur0
    /\ buf' = <<>>
    /\ ret' = NoRet
    /\ UNCHANGED <<now, heap, registry, callers, socket, egress, received>>

process_batch_pop ==
    /\ ipc = "pb_pop"
    /\ IF cur.i < BATCH_SIZE /\ packet_queue # <<>>
       THEN /\ cur' = [Cur0 EXCEPT !.i = cur.i + 1,
                                   !.packet = QueuePop(packet_queue).packet]
            /\ packet_queue' = QueuePop(packet_queue).rest
            /\ ipc' = "fp_lookup"
       ELSE /\ cur' = Cur0
            /\ ipc' = "recv"
            /\ UNCHANGED packet_queue
    /\ ret' = NoRet
    /\ UNCHANGED <<now, heap, registry, callers, buf, socket, egress, received>>

fanout_packet_lookup ==
    /\ ipc = "fp_lookup"
    /\ LET s == get_session_by_ssrc(cur.packet.ssrc) IN
       IF s = None
       THEN /\ ipc' = "pb_pop"
            /\ cur' = [Cur0 EXCEPT !.i = cur.i]
       ELSE /\ ipc' = "fp_now"
            /\ cur' = [cur EXCEPT !.session = s]
    /\ ret' = NoRet
    /\ UNCHANGED <<now, heap, registry, callers, packet_queue, buf, socket, egress, received>>

\* Session::record_activity: the clock is read, then the write lock is taken
fanout_packet_now ==
    /\ ipc = "fp_now"
    /\ ipc' = "fp_write"
    /\ cur' = [cur EXCEPT !.t = now]
    /\ ret' = NoRet
    /\ UNCHANGED <<now, heap, registry, callers, packet_queue, buf, socket, egress, received>>

fanout_packet_write ==
    /\ ipc = "fp_write"
    /\ heap' = WriteLastActivity(cur.session, cur.t)
    /\ frame' = [u \in Threads |-> [frame[u] EXCEPT !.idle = @ \ {cur.session}]]
    /\ ipc' = "fp_count"
    /\ ret' = NoRet
    /\ UNCHANGED <<now, registry, pc, packet_queue, buf, cur, socket, egress, received>>

\* the two fetch_adds, the serialization, and the start of the iteration over
\* the subscriber map
fanout_packet_count ==
    /\ ipc = "fp_count"
    /\ heap' = [heap EXCEPT ![cur.session].packet_count = @ + 1,
                            ![cur.session].byte_count = @ + Len(cur.packet.payload)]
    /\ cur' = [cur EXCEPT !.rtp_data = serialize_rtp_packet(cur.packet),
                          !.pending = heap[cur.session].subscribers]
    /\ ipc' = "fp_iter"
    /\ ret' = NoRet
    /\ UNCHANGED <<now, registry, callers, packet_queue, buf, socket, egress, received>>

Range(f) == {f[i] : i \in DOMAIN f}

fanout_packet_visit(a) ==
    /\ ipc = "fp_iter"
    /\ a \in heap[cur.session].subscribers \ Range(cur.subscribers)
    /\ cur' = [cur EXCEPT !.subscribers = Append(@, a)]
    /\ ret' = NoRet
    /\ UNCHANGED <<now, heap, registry, callers, ipc, packet_queue, buf, socket, egress, received>>

fanout_packet_collect ==
    /\ ipc = "fp_iter"
    /\ (cur.pending \cap heap[cur.session].subscribers) \subseteq Range(cur.subscribers)
    /\ cur' = [cur EXCEPT !.pending = {}, !.k = 0, !.mark = Len(egress)]
    /\ ipc' = IF LoopDone(0, Len(cur.subscribers)) THEN "fp_done" ELSE "fp_send"
    /\ ret' = NoRet
    /\ UNCHANGED <<now, heap, registry, callers, packet_queue, buf, socket, egress, received>>

\* one iteration of the send loop: send_to_subscriber(&rtp_data, subscriber_addr)
fanout_packet_send ==
    /\ ipc = "fp_send"
    /\ LET addr == cur.subscribers[cur.k + 1] IN
       \E bind \in BindOutcomes(addr) :
          IF bind = "panic"
          THEN /\ ipc' = "panicked"
               /\ UNCHANGED <<cur, socket, egress>>
          ELSE /\ socket' = SocketEntry(addr, bind)
               /\ egress' \in SendOutcomes(egress, socket'[addr], addr, cur.rtp_data)
               /\ cur' = [cur EXCEPT !.k = @ + 1]
               /\ ipc' = IF LoopDone(cur.k + 1, Len(cur.subscribers))
                         THEN "fp_done" ELSE "fp_send"
    /\ ret' = NoRet
    /\ UNCHANGED <<now, heap, registry, callers, packet_queue, buf, received>>

\* the trace! after the loop; back to process_batch's for loop
fanout_packet_done ==
    /\ ipc = "fp_done"
    /\ ipc' = "pb_pop"
    /\ cur' = [Cur0 EXCEPT !.i = cur.i]
    /\ heap' = Collect(heap, Live(sessions, frame, cur'))
    /\ ret' = NoRet
    /\ UNCHANGED <<now, registry, callers, packet_queue, buf, socket, egress, received>>

fanout_packet ==
    \/ fanout_packet_lookup
    \/ fanout_packet_now
    \/ fanout_packet_write
    \/ fanout_packet_count
    \/ \E a \in Addrs : fanout_packet_visit(a)
    \/ fanout_packet_collect
    \/ fanout_packet_send
    \/ fanout_packet_done

\* main's select!: ctrl_c() completes while server.run() is pending, and the
\* run future is dropped where it is suspended: in recv_from, or in the send
\* (or the fallback bind) of send_to_subscriber.  Nothing polls it again; its
\* locals are kept here as they were when it was dropped.
ctrl_c ==
    /\ ipc \in {"recv", "fp_send"}
    /\ ipc' = "cancelled"
    /\ ret' = NoRet
    /\ UNCHANGED <<now, heap, registry, callers, packet_queue, buf, cur, socket,
                   egress, received>>

run ==
    \/ \E d \in Datagrams(received) : run_recv(d)
    \/ run_parse
    \/ process_batch_pop
    \/ fanout_packet

----------------------------------------------------------------------------
(* A caller that keeps the Arc<Session> after its add_subscriber or          *)
(* remove_subscriber returned true, makes no further call, and looks on.     *)

observe(t) ==
    /\ pc[t] = "idle"
    /\ ret.t = t
    /\ ret.op \in {"add_subscriber", "remove_subscriber"}
    /\ ret.val = TRUE
    /\ UNCHANGED <<now, registry, ingress>>
    /\ Goto(t, "observing",
            [Frame0 EXCEPT
                !.id = ret.on,
                !.addr = ret.arg,
                !.obs = IF ret.op = "add_subscriber" THEN "added" ELSE "removed",
                !.mark = Len(egress),
                !.missed = IF /\ ret.op = "add_subscriber"
                              /\ ipc = "fp_send"
                              /\ cur.session = ret.on
                              /\ ret.arg \notin Range(cur.subscribers)
                           THEN cur.packet.sequence ELSE None])

----------------------------------------------------------------------------
(* Specifications *)

\* everything: the ingress task and the control-plane callers
Next ==
    \/ Tick
    \/ run
    \/ \E t \in Threads : create_session(t, SSRCs)
    \/ \E t \in Threads : remove_session(t)
    \/ \E t \in Threads : cleanup_expired_sessions(t)
    \/ \E t \in Threads : add_subscriber(t, SSRCs)
    \/ \E t \in Threads : remove_subscriber(t, SSRCs)

Spec == Init /\ [][Next]_vars

\* one caller making one call at a time, no ingress traffic
NextSeq ==
    \/ Tick
    \/ create_session(1, SSRCs)
    \/ remove_session(1)
    \/ cleanup_expired_sessions(1)
    \/ add_subscriber(1, SSRCs)
    \/ remove_subscriber(1, SSRCs)

SpecSeq == Init /\ [][NextSeq]_vars

\* callers that only create sessions, concurrently
NextCreate ==
    \/ Tick
    \/ \E t \in Threads : create_session(t, SSRCs)

SpecCreate == Init /\ [][NextCreate]_vars

\* two administrators creating and removing sessions, no clock
NextAdmit ==
    \/ \E t \in Threads : create_session(t, ManySSRCs)
    \/ \E t \in Threads : remove_session(t)

SpecAdmit == Init /\ [][NextAdmit]_vars

\* the registry under concurrent callers, one of them the sweeper
NextRegistry ==
    \/ Tick
    \/ \E t \in Threads : create_session(t, SSRCs)
    \/ \E t \in Threads : remove_session(t)
    \/ cleanup_expired_sessions(1)

SpecRegistry == Init /\ [][NextRegistry]_vars

\* the sweeper (caller 1) against a caller that creates sessions and adds and
\* removes their subscribers (caller 2)
NextExpiry ==
    \/ Tick
    \/ cleanup_expired_sessions(1)
    \/ create_session(2, SSRCs)
    \/ add_subscriber(2, SSRCs)
    \/ remove_subscriber(2, SSRCs)

SpecExpiry == Init /\ [][NextExpiry]_vars

\* the ingress task against the administrator (caller 1) and the signalling
\* layer (caller 2), both busy with the stream of SSRC 1
NextFanout ==
    \/ run
    \/ create_session(1, {1})
    \/ add_subscriber(2, {1})
    \/ remove_subscriber(2, {1})

SpecFanout == Init /\ [][NextFanout]_vars

\* two callers adding and removing subscribers of one session while the clock
\* advances
NextActivity ==
    \/ Tick
    \/ create_session(1, {1})
    \/ \E t \in Threads : add_subscriber(t, {1})
    \/ \E t \in Threads : remove_subscriber(t, {1})

SpecActivity == Init /\ [][NextActivity]_vars

\* the ingress task, the shutdown signal, and callers that set a session up
NextShutdown ==
    \/ run
    \/ ctrl_c
    \/ create_session(1, {1})
    \/ add_subscriber(2, {1})

SpecShutdown == Init /\ [][NextShutdown]_vars

\* the ingress task, and a caller that adds and removes subscribers and looks
\* at what is sent afterwards
NextTrail ==
    \/ run
    \/ create_session(1, {1})
    \/ add_subscriber(2, {1})
    \/ remove_subscriber(2, {1})
    \/ observe(2)

SpecTrail == Init /\ [][NextTrail]_vars

\* a server in which create_session has returned a session for SSRC 1 and
\* add_subscriber has returned true for each of its subscribers, all within the
\* first second
InitRemoval ==
    /\ now = 0
    /\ \E a \in SourceAddrs, subs \in SUBSET Addrs \ {{}} :
          heap = <<[Session_new(1, a, 1) EXCEPT !.subscribers = subs]>>
    /\ sessions = {1}
    /\ ssrc_index = IndexOf1
    /\ pc = [t \in Threads |-> "idle"]
    /\ frame = [t \in Threads |-> Frame0]
    /\ ret = NoRet
    /\ ipc = "recv"
    /\ packet_queue = <<>>
    /\ buf = <<>>
    /\ cur = Cur0
    /\ socket = <<>>
    /\ egress = <<>>
    /\ received = 0

\* the ingress task, and one caller that creates sessions, removes sessions
\* by id and sweeps
NextRemoval ==
    \/ Tick
    \/ run
    \/ create_session(1, {1})
    \/ remove_session(1)
    \/ cleanup_expired_sessions(1)

SpecRemoval == InitRemoval /\ [][NextRemoval]_vars

\* the n-th packet pushed to a queue, of SSRC s
BatchPacket(n, s) ==
    [payload |-> <<7>>, timestamp |-> 0, sequence |-> 100 + n, ssrc |-> s,
     marker |-> FALSE]

BatchQueue(len, s) == [n \in 1..len |-> BatchPacket(n, s)]

\* the queues an engine is handed: short ones of packets that have a session,
\* and ones around BATCH_SIZE of packets that have none
BatchQueues ==
    {BatchQueue(len, 1) : len \in 0..MaxBatch}
        \cup {BatchQueue(len, UnknownSsrc) :
                 len \in {BATCH_SIZE - 1, BATCH_SIZE, BATCH_SIZE + 1, BATCH_SIZE + 2}}

\* one session for SSRC 1 with its subscribers, and either the server about
\* to receive its first datagram, or an engine built by FanoutEngine::new on a
\* queue its owner has filled, at the call of process_batch (no ingress loop
\* runs beside it: nothing is received once the call has returned)
InitBatch ==
    /\ now = 0
    /\ \E a \in SourceAddrs, subs \in SUBSET Addrs \ {{}} :
          heap = <<[Session_new(1, a, 1) EXCEPT !.subscribers = subs]>>
    /\ sessions = {1}
    /\ ssrc_index = IndexOf1
    /\ pc = [t \in Threads |-> "idle"]
    /\ frame = [t \in Threads |-> Frame0]
    /\ ret = NoRet
    /\ \/ ipc = "recv" /\ packet_queue = <<>> /\ received = 0
       \/ ipc = "pb_pop" /\ packet_queue \in BatchQueues /\ received = MaxDatagrams
    /\ buf = <<>>
    /\ cur = Cur0
    /\ socket = <<>>
    /\ egress = <<>>

NextBatch == run

SpecBatch == InitBatch /\ [][NextBatch]_vars

\* tasks sending through one engine concurrently
NextCache == \E t \in Threads : send_to_subscriber(t)

SpecCache == Init /\ [][NextCache]_vars

\* The codec alone.  recv_from has returned a datagram: every first byte with
\* version 2 and the padding, extension and CSRC bits set or not, and versions
\* 1 and 3; a marker bit set or not; after the twelve fixed bytes every tail
\* of up to MaxTail small bytes, some longer tails that hold a whole extension
\* or a CSRC entry, and the datagrams cut short of the fixed header.
FirstBytes == {128, 160, 144, 176, 129, 145, 64, 192}

SecondBytes == {96, 224}

Tails ==
    UNION {[1..k -> {0, 1, 2}] : k \in 0..MaxTail}
        \cup {<<0, 0, 0, 1, 5, 6, 7, 8>>,
              <<0, 0, 0, 1, 5, 6, 7, 8, 9>>,
              <<0, 0, 0, 1, 5, 6, 7, 8, 9, 2>>,
              <<0, 0, 0, 9, 0, 0, 0, 1, 5, 6, 7, 8, 4>>}

CodecInputs ==
    {RtpDatagram(b0, b1, 258, 16909060, 1, rest) :
        b0 \in FirstBytes, b1 \in SecondBytes, rest \in Tails}
        \cup {SubSeq(RtpDatagram(128, 96, 258, 16909060, 1, <<>>), 1, n) : n \in 0..11}

InitCodec ==
    /\ now = 0
    /\ heap = <<>>
    /\ sessions = {}
    /\ ssrc_index = <<>>
    /\ pc = [t \in Threads |-> "idle"]
    /\ frame = [t \in Threads |-> Frame0]
    /\ ret = NoRet
    /\ ipc = "parse"
    /\ packet_queue = <<>>
    /\ buf \in CodecInputs
    /\ cur = Cur0
    /\ socket = <<>>
    /\ egress = <<>>
    /\ received = MaxDatagrams

NextCodec ==
    \/ run_parse
    \/ process_batch_pop
    \/ fanout_packet_lookup

SpecCodec == InitCodec /\ [][NextCodec]_vars

----------------------------------------------------------------------------
(* The claims *)

AllIdle == \A t \in Threads : pc[t] = "idle"

SsrcsOf(ids) == {heap[id].ssrc : id \in ids}

\* C1: after any sequence of create_session calls (nothing removed, no call in
\* progress) the registry holds exactly one session per distinct SSRC, and for
\* every session get_session_by_ssrc(its ssrc) is get_session(its id).
C1_OneSessionPerSsrc ==
    (AllIdle /\ sessions = DOMAIN heap) =>
        /\ session_count = Cardinality(SsrcsOf(sessions))
        /\ \A id \in sessions : get_session_by_ssrc(heap[id].ssrc) = get_session(id)

\* C2: when a create_session call returns and a call for the same SSRC that
\* ran concurrently has already published its session, exactly one of the two
\* sessions is in the id map and it is the one the SSRC is indexed to.
C2_LoserNeverPublished ==
    [][\A t \in Threads :
          (pc[t] = "cs_index_insert" /\ pc'[t] = "idle" /\ frame[t].rival # None) =>
              LET mine == frame[t].id
                  theirs == frame[t].rival
                  in_map == {mine, theirs} \cap sessions'
              IN /\ Cardinality(in_map) = 1
                 /\ frame[t].ssrc \in DOMAIN ssrc_index'
                 /\ ssrc_index'[frame[t].ssrc] \in in_map]_vars

\* C3: the registry never holds more than max_sessions sessions.
C3_AtMostMaxSessions == Cardinality(sessions) <= max_sessions

\* C4: a create_session call that finds max_sessions sessions in the registry
\* returns None and changes neither the id map nor the SSRC index nor any
\* session, so every lookup by id or by SSRC answers as before, and if the new
\* SSRC had no session it still has none.
C4_AtCapacityCreateFails ==
    [][\A t \in Threads, a \in SourceAddrs, s \in ManySSRCs :
          (Cardinality(sessions) >= max_sessions /\ create_session_check(t, a, s)) =>
              /\ ret' = [t |-> t, op |-> "create_session", arg |-> s, val |-> None]
              /\ pc'[t] = "idle"
              /\ sessions' = sessions
              /\ ssrc_index' = ssrc_index
              /\ heap' = heap]_vars

\* C4, its case: a create_session has just failed at capacity, and every
\* session of the full registry is retrievable by id and by SSRC while the
\* SSRC asked for has no session.
C4_Witness ==
    /\ ret.op = "create_session"
    /\ ret.val = None
    /\ Cardinality(sessions) = max_sessions
    /\ \A id \in sessions : get_session_by_ssrc(heap[id].ssrc) = id
    /\ get_session_by_ssrc(ret.arg) = None

\* C5: no session ever has more than max_fanout_per_session subscribers.
C5_FanoutBounded ==
    \A id \in DOMAIN heap :
        Cardinality(heap[id].subscribers) <= max_fanout_per_session

\* C6: in every state the SSRC index and the id map name the same sessions:
\* an indexed SSRC names a session of the id map with that SSRC, and every
\* session of the id map is the one its SSRC is indexed to.
C6_IndicesConsistent ==
    /\ \A s \in DOMAIN ssrc_index :
          ssrc_index[s] \in sessions /\ heap[ssrc_index[s]].ssrc = s
    /\ \A id \in sessions :
          heap[id].ssrc \in DOMAIN ssrc_index /\ ssrc_index[heap[id].ssrc] = id

\* C7: when cleanup_expired_sessions returns, every session that was in the
\* registry and idle for more than session_timeout_secs when the call began,
\* and that nothing has touched since, is retrievable neither by id nor by SSRC.
C7_IdleSessionsSwept ==
    [][\A t \in Threads :
          (/\ cleanup_collect(t) \/ cleanup_remove(t) \/ cleanup_index_remove(t)
           /\ pc'[t] = "idle") =>
              \A id \in frame[t].idle :
                  /\ id \notin sessions'
                  /\ \A s \in DOMAIN ssrc_index' :
                        ssrc_index'[s] = id => ssrc_index'[s] \notin sessions']_vars

\* C7, its case: a sweep has just returned, it found idle sessions, none of
\* them can be looked up any more, and a session that was not idle is still there.
C7_Witness ==
    /\ ret.op = "cleanup_expired_sessions"
    /\ ret.arg # {}
    /\ \A id \in ret.arg :
          get_session(id) = None /\ \A s \in SSRCs : get_session_by_ssrc(s) # id
    /\ sessions # {}

\* C8: the sweep removes a session only if, at the moment of the removal, its
\* last_activity is more than session_timeout_secs old.
C8_SweepRetainsActive ==
    [][\A t \in Threads :
          (cleanup_remove(t) /\ Head(frame[t].expired) \in sessions) =>
              Idle(Head(frame[t].expired))]_vars

\* the sends submitted for the packet being fanned out
Sent == SubSeq(egress, cur.mark + 1, Len(egress))

\* C9: while the send loop runs, the sends submitted for the packet are, in
\* order, the first k addresses of the snapshot, each carrying the serialized
\* packet; when the loop is over they are the whole snapshot, one send per
\* address, whatever the subscriber set has become meanwhile.
C9_OneSendPerSnapshotAddress ==
    ipc \in {"fp_send", "fp_done"} =>
        /\ Len(Sent) = cur.k
        /\ \A i \in 1..Len(Sent) :
              Sent[i].addr = cur.subscribers[i] /\ Sent[i].data = cur.rtp_data
        /\ \A i, j \in DOMAIN cur.subscribers :
              cur.subscribers[i] = cur.subscribers[j] => i = j
        /\ ipc = "fp_done" => cur.k = Len(cur.subscribers)

\* C9, its case: a packet has been sent to both addresses of its snapshot, and
\* the session's subscriber set is no longer the snapshot.
C9_Witness ==
    /\ ipc = "fp_done"
    /\ Len(cur.subscribers) = 2
    /\ Len(Sent) = 2
    /\ heap[cur.session].subscribers # Range(cur.subscribers)

SsrcOf(data) == parse_rtp_packet(data).packet.ssrc

SequenceOf(data) == parse_rtp_packet(data).packet.sequence

\* C10: of two datagrams of one SSRC successfully sent to one subscriber, the
\* one sent first is not the one ingested later (the sender numbers its
\* packets in the order it sends them, which is the order they are ingested in).
C10_PerSubscriberOrder ==
    \A i, j \in DOMAIN egress :
        (/\ i < j
         /\ egress[i].ok /\ egress[j].ok
         /\ egress[i].addr = egress[j].addr
         /\ SsrcOf(egress[i].data) = SsrcOf(egress[j].data)) =>
            SequenceOf(egress[i].data) <= SequenceOf(egress[j].data)

\* C10, its case: two packets of one SSRC, ingested one after the other, were
\* both sent successfully to the same subscriber.
C10_Witness ==
    \E i, j \in DOMAIN egress :
        /\ i < j
        /\ egress[i].ok /\ egress[j].ok
        /\ egress[i].addr = egress[j].addr
        /\ SsrcOf(egress[i].data) = SsrcOf(egress[j].data)
        /\ SequenceOf(egress[i].data) < SequenceOf(egress[j].data)

\* C11: when the packet taken from the queue has an SSRC that no session of
\* the registry has, the lookup step drops it: no send is submitted, the id map,
\* the SSRC index, every Session object (subscribers, counters, last_activity)
\* and the socket cache stay as they were, and the task goes on to the next
\* packet of the batch holding neither the packet nor a session.
C11_NoSessionDrop ==
    [][(fanout_packet_lookup /\ cur.packet.ssrc \notin SsrcsOf(sessions)) =>
          /\ egress' = egress
          /\ sessions' = sessions
          /\ ssrc_index' = ssrc_index
          /\ heap' = heap
          /\ socket' = socket
          /\ packet_queue' = packet_queue
          /\ ipc' = "pb_pop"
          /\ cur'.packet = None
          /\ cur'.session = None]_vars

\* C11, its case: the first packet of a batch is through, nothing was sent and
\* no session counted it, although a session with a subscriber exists.
C11_Witness ==
    /\ ipc = "pb_pop"
    /\ cur.i = 1
    /\ egress = <<>>
    /\ \A id \in DOMAIN heap : heap[id].packet_count = 0
    /\ \E id \in sessions : heap[id].subscribers # {}

\* the datagrams the specification has rejected
TooShort(data) == Len(data) < 12

BadVersion(data) == Len(data) >= 12 /\ (Byte(data, 0) \div 64) % 4 # 2

\* extension bit set, and fewer bytes than the header (with its CSRC list),
\* the 4-byte extension header and its 4 * ext_length bytes
ExtensionShort(data) ==
    /\ Len(data) >= 12
    /\ (Byte(data, 0) \div 16) % 2 = 1
    /\ LET header_len == 12 + (Byte(data, 0) % 16) * 4 IN
       \/ Len(data) < header_len + 4
       \/ Len(data) < header_len + 4
                        + 4 * U16(Byte(data, header_len + 2), Byte(data, header_len + 3))

\* C12: parse_rtp_packet returns None for every datagram shorter than 12
\* bytes, every datagram whose version is not 2, and every datagram with the
\* extension bit set that is shorter than its header, extension header and
\* extension data.
C12_Rejects ==
    (ipc = "parse" /\ (TooShort(buf) \/ BadVersion(buf) \/ ExtensionShort(buf))) =>
        parse_rtp_packet(buf) = ParseNone

\* C13: for every datagram parse_rtp_packet accepts, parsing the serialized
\* packet gives the same sequence, timestamp, SSRC, marker and payload.
C13_RoundTrip ==
    (ipc = "parse" /\ parse_rtp_packet(buf).tag = "Some") =>
        LET p == parse_rtp_packet(buf).packet
            q == parse_rtp_packet(serialize_rtp_packet(p))
        IN /\ q.tag = "Some"
           /\ q.packet.sequence = p.sequence
           /\ q.packet.timestamp = p.timestamp
           /\ q.packet.ssrc = p.ssrc
           /\ q.packet.marker = p.marker
           /\ q.packet.payload = p.payload

\* C13, its case: an accepted datagram with the marker set, padding, an
\* extension and a payload, which the serializer does not reproduce byte for
\* byte.
C13_Witness ==
    /\ ipc = "parse"
    /\ parse_rtp_packet(buf).tag = "Some"
    /\ Byte(buf, 0) = 176
    /\ parse_rtp_packet(buf).packet.marker
    /\ parse_rtp_packet(buf).packet.payload # <<>>
    /\ parse_rtp_packet(buf).packet.sequence > 255
    /\ serialize_rtp_packet(parse_rtp_packet(buf).packet) # buf

\* C14: whatever one iteration of the send loop meets (a send error, a socket
\* that cannot be created), the loop goes on with the next address of the
\* snapshot or, after the last one, with the rest of the batch, and the
\* registry and the session's subscriber set stay as they were.
C14_SendFailureIsolated ==
    [][fanout_packet_send =>
          /\ cur'.k = cur.k + 1
          /\ ipc' \in {"fp_send", "fp_done"}
          /\ sessions' = sessions
          /\ ssrc_index' = ssrc_index
          /\ heap' = heap]_vars

\* C15: every send, finished or under way, went through the socket the cache
\* holds for its address now, and the cache holds sockets for exactly the
\* addresses sent to: a socket is created by the first send to its address,
\* used by every later one, and never removed or replaced.
C15_OneSocketPerAddress ==
    /\ \A i \in DOMAIN egress :
          /\ egress[i].addr \in DOMAIN socket
          /\ egress[i].sock = socket[egress[i].addr]
    /\ \A t \in Threads :
          pc[t] = "ss_send_to" =>
              /\ frame[t].addr \in DOMAIN socket
              /\ frame[t].sock = socket[frame[t].addr]
    /\ DOMAIN socket =
          {egress[i].addr : i \in DOMAIN egress}
              \cup {frame[t].addr : t \in {u \in Threads : pc[u] = "ss_send_to"}}

\* C15, its case: two sends to one address went through one socket, a second
\* address has its own, and another task is sending right now.
C15_Witness ==
    /\ \E i, j \in DOMAIN egress :
          i < j /\ egress[i].addr = egress[j].addr /\ egress[i].sock = egress[j].sock
    /\ Cardinality(DOMAIN socket) = 2
    /\ \E t \in Threads : pc[t] = "ss_send_to"

\* C16: no step makes the last_activity of a session that is still alive
\* smaller than it was.
C16_LastActivityMonotone ==
    [][\A id \in DOMAIN heap :
          heap'[id] # Freed => heap'[id].last_activity >= heap[id].last_activity]_vars

\* C17: once the shutdown signal has stopped the ingress task, no accepted
\* packet is left in the queue and the packet whose fan-out had started has
\* been sent to every address of its snapshot.
C17_ShutdownDrains ==
    ipc = "cancelled" =>
        /\ packet_queue = <<>>
        /\ cur.k = Len(cur.subscribers)

\* the sends to the observed address, carrying the observed session's SSRC,
\* submitted since caller t's call returned
SentSince(t) ==
    {i \in DOMAIN egress :
        /\ i > frame[t].mark
        /\ egress[i].addr = frame[t].addr
        /\ SsrcOf(egress[i].data) = heap[frame[t].id].ssrc}

InFanout == ipc \in {"fp_now", "fp_write", "fp_count", "fp_iter", "fp_send", "fp_done"}

\* the session the fan-out holds is a whole Session of the packet's SSRC, and
\* the sends of its loop are the addresses of its snapshot, in order, all of
\* them once the loop is over
FanoutConsistent ==
    InFanout =>
        /\ heap[cur.session] # Freed
        /\ heap[cur.session].ssrc = cur.packet.ssrc
        /\ ipc \in {"fp_send", "fp_done"} =>
              /\ Len(Sent) = cur.k
              /\ \A i \in 1..Len(Sent) :
                    Sent[i].addr = cur.subscribers[i] /\ Sent[i].data = cur.rtp_data
        /\ ipc = "fp_done" => cur.k = Len(cur.subscribers)

\* C19: a fan-out keeps a consistent session to its end whatever happens to
\* the registry meanwhile; a lookup finds only a session that is in the id map
\* at that moment, and drops the packet otherwise; and a session once removed
\* from the id map never comes back.
C19_FanoutSurvivesRemoval ==
    [][/\ FanoutConsistent'
       /\ fanout_packet_lookup =>
             \/ cur'.session \in sessions
             \/ cur'.session = None /\ ipc' = "pb_pop" /\ egress' = egress
       /\ \A id \in DOMAIN heap :
             (/\ id \notin sessions
              /\ \A t \in Threads :
                    ~(pc[t] = "cs_sessions_insert" /\ frame[t].id = id)) =>
                 id \notin sessions']_vars

\* C19, its case: a packet has been sent to the whole snapshot of a session
\* that was removed from the registry during the fan-out and that a lookup
\* no longer finds.
C19_Witness ==
    /\ ipc = "fp_done"
    /\ cur.session \notin sessions
    /\ get_session_by_ssrc(cur.packet.ssrc) = None
    /\ Len(cur.subscribers) >= 1
    /\ Len(Sent) = Len(cur.subscribers)

\* every session of the registry other than id answers get_session as before
\* this step, and one that get_session_by_ssrc returned for its SSRC is still
\* the one returned
OthersKept(id) ==
    \A o \in sessions \ {id} :
        /\ get_session(o)' = get_session(o)
        /\ get_session_by_ssrc(heap[o].ssrc) = o =>
              get_session_by_ssrc(heap[o].ssrc)' = o

\* C20: remove_session(id) removes only the session with that id: neither of
\* its two steps changes what get_session and get_session_by_ssrc return for
\* another session of the registry, whatever calls came before; and for an id
\* that is not in the registry it returns false and changes nothing.
C20_RemovesOnlyThatSession ==
    [][\A t \in Threads :
         /\ \A id \in Ids :
               remove_session_sessions_remove(t, id) =>
                   /\ OthersKept(id)
                   /\ id \notin sessions =>
                         /\ ret'.val = FALSE
                         /\ registry' = registry
                         /\ heap' = heap
         /\ remove_session_index_remove(t) => OthersKept(frame[t].id)]_vars

\* C21: parsing never aborts the data plane: whatever the datagram in the
\* receive buffer, parse_rtp_packet returns a packet or a rejection, and the
\* ingress loop goes on, to the batch or to the next receive.
C21_ParsingNeverAborts ==
    [][run_parse =>
          /\ parse_rtp_packet(buf).tag \in {"Some", "None"}
          /\ ipc' \in {"pb_pop", "recv"}]_vars

\* C22: one process_batch invocation pops at most BATCH_SIZE packets, each
\* pop takes the oldest packet of the queue while the fan-out of no other
\* packet is under way, and the invocation returns only with the queue empty
\* or BATCH_SIZE packets popped; and the ingress loop receives a datagram only
\* with the queue empty.
C22_BatchBoundedFifo ==
    [][/\ cur'.i <= BATCH_SIZE
       /\ process_batch_pop =>
             IF ipc' = "fp_lookup"
             THEN /\ packet_queue # <<>>
                  /\ cur.packet = None
                  /\ cur'.packet = Head(packet_queue)
                  /\ packet_queue' = Tail(packet_queue)
                  /\ cur'.i = cur.i + 1
             ELSE /\ packet_queue = <<>> \/ cur.i = BATCH_SIZE
                  /\ packet_queue' = packet_queue
       /\ (\E d \in Datagrams(received) : run_recv(d)) => packet_queue = <<>>]_vars

\* C22, its case: an invocation that has popped BATCH_SIZE packets in queue
\* order, the last of them just now, with a packet left in the queue.
C22_Witness ==
    /\ ipc = "fp_lookup"
    /\ cur.i = BATCH_SIZE
    /\ cur.packet = BatchPacket(BATCH_SIZE, UnknownSsrc)
    /\ packet_queue # <<>>

====
